---- MODULE Spec2Model ----
(***************************************************************************)
(* AbstractBlock (lib/primitives/abstractblock.js): the block header       *)
(* entity, its cached hash, its abbreviated serialization and the          *)
(* two-phase verification.                                                 *)
(*                                                                         *)
(* JavaScript values are records [t, n, s]: t is the type tag, n the       *)
(* number (or 0/1 for a boolean), s the characters of a string, the bytes  *)
(* of a Buffer or the elements of an array.  Characters are ASCII codes.   *)
(* Numbers of the model stay below 2^31.                                   *)
(***************************************************************************)
EXTENDS Integers, Sequences, FiniteSets, TLC

(* ------------------------------ values -------------------------------- *)

Undef == [t |-> "undefined", n |-> 0, s |-> <<>>]
Null == [t |-> "null", n |-> 0, s |-> <<>>]
NaN == [t |-> "nan", n |-> 0, s |-> <<>>]
Num(n) == [t |-> "number", n |-> n, s |-> <<>>]
Str(s) == [t |-> "string", n |-> 0, s |-> s]
Buf(s) == [t |-> "buffer", n |-> 0, s |-> s]
Arr(s) == [t |-> "array", n |-> 0, s |-> s]
Bool(b) == [t |-> "boolean", n |-> (IF b THEN 1 ELSE 0), s |-> <<>>]

\* JavaScript truthiness (the conditions !x, !!x, assert(x)).
Truthy(v) ==
  CASE v.t \in {"undefined", "null", "nan"} -> FALSE
    [] v.t \in {"number", "boolean"} -> v.n # 0
    [] v.t = "string" -> Len(v.s) > 0
    [] OTHER -> TRUE

\* util.isNumber: typeof obj === 'number' && isFinite(obj).
isNumber(v) == v.t = "number"

\* typeof v === 'string'
isString(v) == v.t = "string"

\* F applied to the value of v, v being evaluated once.
Let(v, F(_)) == CHOOSE y \in {F(x) : x \in {v}} : TRUE

(* --------------------------- hex and bytes ---------------------------- *)

HashSize == 32

\* The characters 0-9 a-f A-F.
IsHexChar(c) == (c >= 48 /\ c <= 57) \/ (c >= 97 /\ c <= 102) \/ (c >= 65 /\ c <= 70)

HexVal(c) == IF c <= 57 THEN c - 48 ELSE IF c >= 97 THEN c - 87 ELSE c - 55

HexChar(d) == IF d < 10 THEN 48 + d ELSE 87 + d

\* Buffer.toString('hex'): two lower-case digits per byte.
toHex(bytes) ==
  Let(bytes, LAMBDA b :
    [i \in 1..(2 * Len(b)) |->
       IF i % 2 = 1 THEN HexChar(b[(i + 1) \div 2] \div 16)
                    ELSE HexChar(b[(i + 1) \div 2] % 16)])

\* Buffer.from(str, 'hex') of a well-formed hex string.
fromHex(chars) ==
  Let(chars, LAMBDA c :
    [i \in 1..(Len(c) \div 2) |-> 16 * HexVal(c[2 * i - 1]) + HexVal(c[2 * i])])

\* A hash in memory: a string of 2 * HashSize hex characters.
IsHashString(v) ==
  /\ v.t = "string"
  /\ Len(v.s) = 2 * HashSize
  /\ \A i \in 1..Len(v.s) : IsHexChar(v.s[i])

\* util.revHex: the hex string with its bytes in reverse order.
revHex(chars) ==
  Let(chars, LAMBDA c :
    [i \in 1..Len(c) |->
       c[2 * (Len(c) \div 2 - (i + 1) \div 2) + (IF i % 2 = 1 THEN 1 ELSE 2)]])

\* encoding.NULL_HASH: sixty-four '0' characters.
NULL_HASH == Str([i \in 1..(2 * HashSize) |-> 48])

\* Little-endian bytes of an integer, two's complement for a negative one.
LE(v, width) == Let(v, LAMBDA x : [i \in 1..width |-> (x \div (256 ^ (i - 1))) % 256])

\* The unsigned integer of little-endian bytes.
RECURSIVE FromLE(_)
FromLE(bytes) ==
  IF bytes = <<>> THEN 0 ELSE bytes[1] + 256 * FromLE(Tail(bytes))

(* ------------------------------ writer -------------------------------- *)
(* A write yields [ok, bytes]; ok = FALSE when the writer throws.          *)

WFail == [ok |-> FALSE, bytes |-> <<>>]
WOk(bytes) == [ok |-> TRUE, bytes |-> bytes]

writeU32(v) == IF isNumber(v) THEN WOk(LE(v.n, 4)) ELSE WFail

write32(v) == IF isNumber(v) THEN WOk(LE(v.n, 4)) ELSE WFail

writeHash(v) ==
  IF v.t = "buffer"
    THEN IF Len(v.s) = HashSize THEN WOk(v.s) ELSE WFail
    ELSE IF IsHashString(v) THEN WOk(fromHex(v.s)) ELSE WFail

writeVarint(v) ==
  IF ~isNumber(v) \/ v.n < 0 THEN WFail
  ELSE IF v.n < 253 THEN WOk(<<v.n>>)
  ELSE IF v.n <= 65535 THEN WOk(<<253>> \o LE(v.n, 2))
  ELSE WOk(<<254>> \o LE(v.n, 4))

\* writeString(value, 'binary'): one byte per character.
writeString(v) == IF isString(v) THEN WOk(v.s) ELSE WFail

(* ------------------------------ reader -------------------------------- *)
(* A read at offset off (bytes already consumed) yields [ok, val, off];    *)
(* ok = FALSE when the reader throws.                                       *)

RFail == [ok |-> FALSE, val |-> Undef, off |-> 0]
ROk(val, off) == [ok |-> TRUE, val |-> val, off |-> off]

Slice(data, off, size) == SubSeq(data, off + 1, off + size)

readU32(data, off) ==
  IF off + 4 > Len(data) THEN RFail
  ELSE ROk(Num(FromLE(Slice(data, off, 4))), off + 4)

read32(data, off) ==
  IF off + 4 > Len(data) THEN RFail
  ELSE Let(Slice(data, off, 4), LAMBDA b :
         ROk(Num(IF b[4] >= 128
                   THEN FromLE(SubSeq(b, 1, 3)) + (b[4] - 256) * 16777216
                   ELSE FromLE(b)), off + 4))

\* readHash('hex')
readHash(data, off) ==
  IF off + HashSize > Len(data) THEN RFail
  ELSE ROk(Str(toHex(Slice(data, off, HashSize))), off + HashSize)

readVarint(data, off) ==
  IF off + 1 > Len(data) THEN RFail
  ELSE IF data[off + 1] < 253 THEN ROk(Num(data[off + 1]), off + 1)
  ELSE IF data[off + 1] = 253
    THEN IF off + 3 > Len(data) THEN RFail
         ELSE Let(FromLE(Slice(data, off + 1, 2)), LAMBDA v :
                IF v < 253 THEN RFail ELSE ROk(Num(v), off + 3))
  ELSE IF data[off + 1] = 254
    \* (a value of 2^31 or more is outside the numbers of the model)
    THEN IF off + 5 > Len(data) \/ data[off + 5] >= 128 THEN RFail
         ELSE Let(FromLE(Slice(data, off + 1, 4)), LAMBDA v :
                IF v <= 65535 THEN RFail ELSE ROk(Num(v), off + 5))
  ELSE RFail

\* readString('binary', size)
readString(data, off, size) ==
  IF ~isNumber(size) \/ size.n < 0 \/ off + size.n > Len(data) THEN RFail
  ELSE ROk(Str(Slice(data, off, size.n)), off + size.n)

(* ---------------------------- hash engine ----------------------------- *)

\* The position-weighted sum of the bytes lo..hi, by halves.
RECURSIVE Mix(_, _, _)
Mix(bytes, lo, hi) ==
  IF lo > hi THEN 0
  ELSE IF lo = hi THEN (bytes[lo] + 1) * (((lo * 131 + 7) % 251) + 1)
  ELSE Let((lo + hi) \div 2, LAMBDA mid : Mix(bytes, lo, mid) + Mix(bytes, mid + 1, hi))

\* digest.hash256: a deterministic digest of HashSize bytes.
hash256(bytes) ==
  Let((Mix(bytes, 1, Len(bytes)) + 7) % 65521, LAMBDA a :
    [i \in 1..HashSize |-> (a * (2 * i + 1) + (a \div 256) * i + i) % 256])

(* ------------------------- proof-of-work checker ----------------------- *)

\* The target of a mantissa shifted left by shift bytes: its sign, whether it
\* exceeds HashSize bytes, and its little-endian magnitude.
Target(negative, m, shift) ==
  [neg |-> negative /\ \E k \in 1..3 : m[k] # 0,
   overflow |-> \E k \in 1..3 : m[k] # 0 /\ k + shift > HashSize,
   mag |-> [j \in 1..HashSize |->
              IF j - shift >= 1 /\ j - shift <= 3 THEN m[j - shift] ELSE 0]]

\* consensus.fromCompact: exponent in the top byte, sign in bit 23, mantissa
\* in the low 23 bits.
fromCompact(bits) ==
  Let(IF isNumber(bits) THEN bits.n ELSE 0, LAMBDA compact :
    Let(compact \div 16777216, LAMBDA exponent :
      IF exponent <= 3
        THEN Target((compact \div 8388608) % 2 = 1,
                    LE((compact % 8388608) \div (256 ^ (3 - exponent)), 3), 0)
        ELSE Target((compact \div 8388608) % 2 = 1,
                    LE(compact % 8388608, 3), exponent - 3)))

IsZero(mag) == \A j \in 1..Len(mag) : mag[j] = 0

\* a <= b for little-endian magnitudes of the same length.
LessEq(a, b) ==
  \/ \A j \in 1..Len(a) : a[j] = b[j]
  \/ \E j \in 1..Len(a) :
       /\ a[j] < b[j]
       /\ \A k \in (j + 1)..Len(a) : a[k] = b[k]

\* consensus.verifyPOW(hash, bits)
consensusVerifyPOW(hash, bits) ==
  Let(fromCompact(bits), LAMBDA target :
    IF target.neg \/ target.overflow \/ IsZero(target.mag) THEN FALSE
    ELSE LessEq(hash, target.mag))

(* ------------------------------- entity -------------------------------- *)

VARIABLES
  this,     \* the fields of the AbstractBlock instance
  variant,  \* "abstract": the base itself; "block": a variant that overrides verifyBody
  op,       \* the operation called last
  arg,      \* its flags: refresh's all, hash's enc, the variant's body check
  ret,      \* what it returned or threw
  trace,    \* the calls it made: verifyPOW and verifyBody results, tx.refresh() counts
  pin,      \* history: the digest hash() returned first (see Track)
  shared    \* this.blocksig is the Buffer object the caller passed and still holds

vars == <<this, variant, op, arg, ret, trace, pin, shared>>

\* The entity itself as a return value (return this).
This == [t |-> "this", n |-> 0, s |-> <<>>]

Returned(v) == [threw |-> FALSE, val |-> v, err |-> ""]
Thrown(e) == [threw |-> TRUE, val |-> Undef, err |-> e]

NoTrace == [verifyPOW |-> <<>>, verifyBody |-> <<>>, txRefresh |-> <<>>]

\* function AbstractBlock()
AbstractBlock ==
  [version |-> Num(1),
   prevHash |-> NULL_HASH,
   merkleRoot |-> NULL_HASH,
   hashMerkleRootWithData |-> NULL_HASH,
   hashMerkleRootWithPrevData |-> NULL_HASH,
   time |-> Num(0),
   bits |-> Num(0),
   nonce |-> Num(0),
   outpointhash |-> NULL_HASH,
   outpointn |-> Num(0),
   blocksigsize |-> Num(0),
   blocksig |-> Null,
   txs |-> Null,
   groupSize |-> Null,
   prevContractData |-> Null,
   mutable |-> Bool(FALSE),
   _hash |-> Null,
   _hhash |-> Null,
   _size |-> Num(-1),
   _witness |-> Num(-1)]

\* The twelve header fields.
HeaderFields ==
  {"version", "prevHash", "merkleRoot", "hashMerkleRootWithData",
   "hashMerkleRootWithPrevData", "time", "bits", "nonce", "outpointhash",
   "outpointn", "blocksigsize", "blocksig"}

\* A parseOptions that copies each field as soon as it has checked it.
parseOptionsEager(self, options) ==
  IF ~options.present THEN [this |-> self, ret |-> Thrown("Block data is required.")]
  ELSE IF ~isNumber(options.version) THEN [this |-> self, ret |-> Thrown("AssertionError")]
  ELSE IF ~isString(options.prevHash)
    THEN [this |-> [self EXCEPT !.version = options.version],
          ret |-> Thrown("AssertionError")]
  ELSE IF ~(/\ isString(options.merkleRoot)
            /\ isString(options.hashMerkleRootWithData)
            /\ isString(options.hashMerkleRootWithPrevData)
            /\ isNumber(options.time)
            /\ isNumber(options.bits)
            /\ isNumber(options.nonce))
    THEN [this |-> [self EXCEPT !.version = options.version,
                                !.prevHash = options.prevHash],
          ret |-> Thrown("AssertionError")]
  ELSE
    [this |-> [self EXCEPT
                 !.version = options.version,
                 !.prevHash = options.prevHash,
                 !.merkleRoot = options.merkleRoot,
                 !.hashMerkleRootWithData = options.hashMerkleRootWithData,
                 !.hashMerkleRootWithPrevData = options.hashMerkleRootWithPrevData,
                 !.time = options.time,
                 !.bits = options.bits,
                 !.nonce = options.nonce,
                 !.outpointhash = options.outpointhash,
                 !.outpointn = options.outpointn,
                 !.blocksigsize = options.blocksigsize,
                 !.blocksig = options.blocksig,
                 !.mutable = IF options.mutable.t \notin {"undefined", "null"}
                               THEN Bool(Truthy(options.mutable)) ELSE @],
     ret |-> Returned(This)]

\* AbstractBlock.prototype.parseOptions; options.present is FALSE for a
\* missing options argument.
parseOptions(self, options) ==
  IF ~options.present THEN [this |-> self, ret |-> Thrown("Block data is required.")]
  ELSE IF ~isNumber(options.version) THEN [this |-> self, ret |-> Thrown("AssertionError")]
  ELSE IF ~isString(options.prevHash) THEN [this |-> self, ret |-> Thrown("AssertionError")]
  ELSE IF ~isString(options.merkleRoot) THEN [this |-> self, ret |-> Thrown("AssertionError")]
  ELSE IF ~isString(options.hashMerkleRootWithData)
    THEN [this |-> self, ret |-> Thrown("AssertionError")]
  ELSE IF ~isString(options.hashMerkleRootWithPrevData)
    THEN [this |-> self, ret |-> Thrown("AssertionError")]
  ELSE IF ~isNumber(options.time) THEN [this |-> self, ret |-> Thrown("AssertionError")]
  ELSE IF ~isNumber(options.bits) THEN [this |-> self, ret |-> Thrown("AssertionError")]
  ELSE IF ~isNumber(options.nonce) THEN [this |-> self, ret |-> Thrown("AssertionError")]
  ELSE
    LET s1 == [self EXCEPT
                 !.version = options.version,
                 !.prevHash = options.prevHash,
                 !.merkleRoot = options.merkleRoot,
                 !.hashMerkleRootWithData = options.hashMerkleRootWithData,
                 !.hashMerkleRootWithPrevData = options.hashMerkleRootWithPrevData,
                 !.time = options.time,
                 !.bits = options.bits,
                 !.nonce = options.nonce,
                 !.outpointhash = options.outpointhash,
                 !.outpointn = options.outpointn,
                 !.blocksigsize = options.blocksigsize,
                 !.blocksig = options.blocksig]
        s2 == IF options.mutable.t \notin {"undefined", "null"}
                THEN [s1 EXCEPT !.mutable = Bool(Truthy(options.mutable))]
                ELSE s1
    IN [this |-> s2, ret |-> Returned(This)]

\* AbstractBlock.prototype.parseJSON. Its body never reads its parameter json:
\* it reads the name options, which the function does not declare. In strict
\* mode that throws a ReferenceError unless the enclosing scope binds
\* options (declared), and then outer, the value bound there, is checked and
\* copied as parseOptions does, the mutable flag excepted.
parseJSON(self, json, declared, outer) ==
  IF ~declared THEN [this |-> self, ret |-> Thrown("ReferenceError")]
  ELSE parseOptions(self, [outer EXCEPT !.mutable = Undef])

\* this.blocksig = options.blocksig stores the caller's own object: a Buffer
\* is then shared with the caller, a string is a value.
sharesBuffer(options) == options.blocksig.t = "buffer"

\* A refresh that drops the binary digest only and visits no transaction.
refreshShallow(self, all) ==
  [this |-> [self EXCEPT !._hash = Null], calls |-> <<>>]

\* A refresh that resets the sizes and leaves the digest slots as they are.
refreshSizesOnly(self, all) ==
  [this |-> [self EXCEPT !._size = Num(-1), !._witness = Num(-1)],
   calls |-> IF Truthy(all) /\ Truthy(self.txs)
               THEN [i \in 1..Len(self.txs.s) |-> 1] ELSE <<>>]

\* AbstractBlock.prototype._refresh; calls counts the tx.refresh() calls per
\* transaction.
refresh(self, all) ==
  LET s1 == [self EXCEPT !._hash = Null, !._hhash = Null,
                         !._size = Num(-1), !._witness = Num(-1)]
  IN IF ~Truthy(all) THEN [this |-> s1, calls |-> <<>>]
     ELSE IF ~Truthy(self.txs) THEN [this |-> s1, calls |-> <<>>]
     ELSE [this |-> s1, calls |-> [i \in 1..Len(self.txs.s) |-> 1]]

\* A writeAbbr that writes bits before time.
writeAbbrReordered(self) ==
  Let(<<writeU32(self.version),
        writeHash(self.prevHash),
        writeHash(self.merkleRoot),
        writeHash(self.hashMerkleRootWithData),
        writeHash(self.hashMerkleRootWithPrevData),
        writeU32(self.bits),
        writeU32(self.time),
        writeU32(self.nonce),
        writeHash(self.outpointhash),
        write32(self.outpointn),
        writeVarint(self.blocksigsize),
        writeString(self.blocksig)>>,
      LAMBDA w :
        IF \E i \in 1..Len(w) : ~w[i].ok THEN WFail
        ELSE WOk(w[1].bytes \o w[2].bytes \o w[3].bytes \o w[4].bytes \o w[5].bytes
                 \o w[6].bytes \o w[7].bytes \o w[8].bytes \o w[9].bytes
                 \o w[10].bytes \o w[11].bytes \o w[12].bytes))

\* AbstractBlock.prototype.writeAbbr
writeAbbr(self) ==
  Let(<<writeU32(self.version),
        writeHash(self.prevHash),
        writeHash(self.merkleRoot),
        writeHash(self.hashMerkleRootWithData),
        writeHash(self.hashMerkleRootWithPrevData),
        writeU32(self.time),
        writeU32(self.bits),
        writeU32(self.nonce),
        writeHash(self.outpointhash),
        write32(self.outpointn),
        writeVarint(self.blocksigsize),
        writeString(self.blocksig)>>,
      LAMBDA w :
        IF \E i \in 1..Len(w) : ~w[i].ok THEN WFail
        ELSE WOk(w[1].bytes \o w[2].bytes \o w[3].bytes \o w[4].bytes \o w[5].bytes
                 \o w[6].bytes \o w[7].bytes \o w[8].bytes \o w[9].bytes
                 \o w[10].bytes \o w[11].bytes \o w[12].bytes))

\* AbstractBlock.prototype.abbr
abbr(self) == writeAbbr(self)

\* The hex half of hash(): h is the digest, s1 the entity after the binary half.
hashHex(s1, h) ==
  IF Truthy(s1._hhash) THEN [this |-> s1, ret |-> Returned(s1._hhash)]
  ELSE Let(Str(toHex(h.s)), LAMBDA hex :
         [this |-> IF ~Truthy(s1.mutable) THEN [s1 EXCEPT !._hhash = hex] ELSE s1,
          ret |-> Returned(hex)])

\* A hash() that never consults or fills the cache slots.
hashRecompute(self, enc) ==
  Let(abbr(self), LAMBDA raw :
    IF ~raw.ok THEN [this |-> self, ret |-> Thrown("EncodeError")]
    ELSE Let(Buf(hash256(raw.bytes)), LAMBDA h :
           [this |-> self,
            ret |-> Returned(IF enc = "hex" THEN Str(toHex(h.s)) ELSE h)]))

\* A hash() that memoizes the digest in reversed byte order.
hashCachesReversed(self, enc) ==
  IF Truthy(self._hash)
    THEN IF enc = "hex" THEN hashHex(self, self._hash)
         ELSE [this |-> self, ret |-> Returned(self._hash)]
    ELSE Let(abbr(self), LAMBDA raw :
           IF ~raw.ok THEN [this |-> self, ret |-> Thrown("EncodeError")]
           ELSE Let(Buf(hash256(raw.bytes)), LAMBDA h :
                  Let(IF ~Truthy(self.mutable)
                        THEN [self EXCEPT
                                !._hash = Buf([i \in 1..HashSize |-> h.s[HashSize + 1 - i]])]
                        ELSE self,
                      LAMBDA s1 :
                        IF enc = "hex" THEN hashHex(s1, h)
                        ELSE [this |-> s1, ret |-> Returned(h)])))

\* A hash() whose hex request fills the hex slot and skips the binary slot.
hashHexSlotOnly(self, enc) ==
  IF Truthy(self._hash)
    THEN IF enc = "hex" THEN hashHex(self, self._hash)
         ELSE [this |-> self, ret |-> Returned(self._hash)]
    ELSE Let(abbr(self), LAMBDA raw :
           IF ~raw.ok THEN [this |-> self, ret |-> Thrown("EncodeError")]
           ELSE Let(Buf(hash256(raw.bytes)), LAMBDA h :
                  IF enc = "hex" THEN hashHex(self, h)
                  ELSE [this |-> IF ~Truthy(self.mutable)
                                   THEN [self EXCEPT !._hash = h] ELSE self,
                        ret |-> Returned(h)]))

\* AbstractBlock.prototype.hash; enc is "hex" or "".
hash(self, enc) ==
  IF Truthy(self._hash)
    THEN IF enc = "hex" THEN hashHex(self, self._hash)
         ELSE [this |-> self, ret |-> Returned(self._hash)]
    ELSE Let(abbr(self), LAMBDA raw :
           IF ~raw.ok THEN [this |-> self, ret |-> Thrown("EncodeError")]
           ELSE Let(Buf(hash256(raw.bytes)), LAMBDA h :
                  Let(IF ~Truthy(self.mutable) THEN [self EXCEPT !._hash = h] ELSE self,
                      LAMBDA s1 :
                        IF enc = "hex" THEN hashHex(s1, h)
                        ELSE [this |-> s1, ret |-> Returned(h)])))

\* The order and the types parseAbbr reads the fields in.
ParseOrder ==
  << <<"version", "U32">>,
     <<"prevHash", "Hash">>,
     <<"merkleRoot", "Hash">>,
     <<"hashMerkleRootWithData", "Hash">>,
     <<"hashMerkleRootWithPrevData", "Hash">>,
     <<"time", "U32">>,
     <<"bits", "U32">>,
     <<"nonce", "U32">>,
     <<"outpointhash", "Hash">>,
     <<"outpointn", "I32">>,
     <<"blocksigsize", "Varint">>,
     <<"blocksig", "String">> >>

\* One read of the reader; the string is read with the size just decoded.
readField(kind, self, data, off) ==
  CASE kind = "U32" -> readU32(data, off)
    [] kind = "Hash" -> readHash(data, off)
    [] kind = "I32" -> read32(data, off)
    [] kind = "Varint" -> readVarint(data, off)
    [] kind = "String" -> readString(data, off, self.blocksigsize)

\* The assignments of parseAbbr from the k-th on; a read that throws ends them.
RECURSIVE parseAbbrFrom(_, _, _, _)
parseAbbrFrom(self, data, off, k) ==
  IF k > Len(ParseOrder) THEN [this |-> self, ret |-> Returned(This)]
  ELSE Let(readField(ParseOrder[k][2], self, data, off), LAMBDA r :
         IF ~r.ok THEN [this |-> self, ret |-> Thrown("DecodeError")]
         ELSE Let([self EXCEPT ![ParseOrder[k][1]] = r.val], LAMBDA s1 :
                parseAbbrFrom(s1, data, r.off, k + 1)))

\* A parseAbbr that decodes into an entity reset to immutable.
parseAbbrImmutable(self, data) ==
  parseAbbrFrom([self EXCEPT !.mutable = Bool(FALSE)], data, 0, 1)

\* AbstractBlock.prototype.parseAbbr
parseAbbr(self, data) == parseAbbrFrom(self, data, 0, 1)

\* AbstractBlock.prototype.verifyPOW
verifyPOW(self) ==
  Let(hash(self, ""), LAMBDA r :
    IF r.ret.threw THEN r
    ELSE [this |-> r.this,
          ret |-> Returned(Bool(consensusVerifyPOW(r.ret.val.s, r.this.bits)))])

\* A verifyBody() that reports an ordinary failure.
verifyBodyQuiet == Returned(Bool(FALSE))

\* AbstractBlock.prototype.verifyBody
verifyBody == Thrown("Abstract method.")

\* verifyBody as a variant overrides it: body is the result of its check.
verifyBodyOverride(body) == Returned(Bool(body))

\* this.verifyBody() as dispatched on the entity.
callVerifyBody(v, body) == IF v = "abstract" THEN verifyBody ELSE verifyBodyOverride(body)

\* The body phase of verify(): p is what verifyPOW gave.
verifyPhase2(p, v, body) ==
  Let(callVerifyBody(v, body), LAMBDA b :
    [this |-> p.this,
     ret |-> IF b.threw THEN b
             ELSE IF ~Truthy(b.val) THEN Returned(Bool(FALSE))
             ELSE Returned(Bool(TRUE)),
     trace |-> [NoTrace EXCEPT !.verifyPOW = <<p.ret>>, !.verifyBody = <<b>>]])

\* A verify() that runs the body phase whatever the proof of work gave.
verifyEager(self, v, body) ==
  Let(verifyPOW(self), LAMBDA p :
    IF p.ret.threw
      THEN [this |-> p.this, ret |-> p.ret,
            trace |-> [NoTrace EXCEPT !.verifyPOW = <<p.ret>>]]
    ELSE Let(verifyPhase2(p, v, body), LAMBDA q :
           IF ~Truthy(p.ret.val) THEN [q EXCEPT !.ret = Returned(Bool(FALSE))]
           ELSE q))

\* A verify() that invalidates the caches when the proof of work fails.
verifyClearing(self, v, body) ==
  Let(verifyPOW(self), LAMBDA p :
    IF p.ret.threw
      THEN [this |-> p.this, ret |-> p.ret,
            trace |-> [NoTrace EXCEPT !.verifyPOW = <<p.ret>>]]
    ELSE IF ~Truthy(p.ret.val)
      THEN [this |-> [p.this EXCEPT !._hash = Null, !._hhash = Null],
            ret |-> Returned(Bool(FALSE)),
            trace |-> [NoTrace EXCEPT !.verifyPOW = <<p.ret>>]]
    ELSE verifyPhase2(p, v, body))

\* AbstractBlock.prototype.verify
verify(self, v, body) ==
  Let(verifyPOW(self), LAMBDA p :
    IF p.ret.threw
      THEN [this |-> p.this, ret |-> p.ret,
            trace |-> [NoTrace EXCEPT !.verifyPOW = <<p.ret>>]]
    ELSE IF ~Truthy(p.ret.val)
      THEN [this |-> p.this, ret |-> Returned(Bool(FALSE)),
            trace |-> [NoTrace EXCEPT !.verifyPOW = <<p.ret>>]]
    ELSE verifyPhase2(p, v, body))

\* AbstractBlock.prototype.rhash
rhash(self) ==
  Let(hash(self, "hex"), LAMBDA r :
    IF r.ret.threw THEN r
    ELSE [this |-> r.this, ret |-> Returned(Str(revHex(r.ret.val.s)))])

\* new InvItem(InvItem.types.BLOCK, hash)
InvItem(hex) == [t |-> "invitem", n |-> 2, s |-> hex.s]

\* AbstractBlock.prototype.toInv
toInv(self) ==
  Let(hash(self, "hex"), LAMBDA r :
    IF r.ret.threw THEN r
    ELSE [this |-> r.this, ret |-> Returned(InvItem(r.ret.val))])

(* ------------------------------- inputs -------------------------------- *)

MaxTxs == 2

\* A hash other than NULL_HASH, in lower case.
Hash1 == Str([i \in 1..(2 * HashSize) |-> HexChar(i % 16)])

\* compact target 0x207fffff
EasyBits == Num(545259519)

Signature == Str(<<83, 73>>)

NoOptions ==
  [present |-> FALSE, version |-> Undef, prevHash |-> Undef, merkleRoot |-> Undef,
   hashMerkleRootWithData |-> Undef, hashMerkleRootWithPrevData |-> Undef,
   time |-> Undef, bits |-> Undef, nonce |-> Undef, outpointhash |-> Undef,
   outpointn |-> Undef, blocksigsize |-> Undef, blocksig |-> Undef, mutable |-> Undef]

BaseOptions ==
  [present |-> TRUE, version |-> Num(1), prevHash |-> NULL_HASH, merkleRoot |-> Hash1,
   hashMerkleRootWithData |-> NULL_HASH, hashMerkleRootWithPrevData |-> NULL_HASH,
   time |-> Num(5), bits |-> EasyBits, nonce |-> Num(0), outpointhash |-> Hash1,
   outpointn |-> Num(-1), blocksigsize |-> Num(2), blocksig |-> Signature,
   mutable |-> Undef]

\* Options with every field well-formed.
ValidOptions ==
  {BaseOptions,
   [BaseOptions EXCEPT !.mutable = Bool(TRUE)],
   [BaseOptions EXCEPT !.mutable = Bool(FALSE)],
   [BaseOptions EXCEPT !.nonce = Num(1)],
   [BaseOptions EXCEPT !.nonce = Num(1), !.mutable = Bool(TRUE)],
   [BaseOptions EXCEPT !.bits = Num(0)]}

\* Options with one of the fields parseOptions asserts on missing or ill-typed.
IllTypedOptions ==
  {NoOptions,
   [BaseOptions EXCEPT !.version = Undef],
   [BaseOptions EXCEPT !.prevHash = Num(0)],
   [BaseOptions EXCEPT !.merkleRoot = Undef],
   [BaseOptions EXCEPT !.hashMerkleRootWithData = Null],
   [BaseOptions EXCEPT !.hashMerkleRootWithPrevData = Buf(<<0>>)],
   [BaseOptions EXCEPT !.time = NaN],
   [BaseOptions EXCEPT !.bits = Str(<<49>>)],
   [BaseOptions EXCEPT !.nonce = Undef]}

\* Options with one of the other fields missing, or a field ill-shaped.
IllFormedOptions ==
  {[BaseOptions EXCEPT !.prevHash = Str(<<97, 98, 99>>)],
   [BaseOptions EXCEPT !.blocksigsize = Num(5)],
   [BaseOptions EXCEPT !.blocksig = Undef]}

Options == ValidOptions \cup IllTypedOptions \cup IllFormedOptions

\* The entity a fresh instance becomes by parseOptions(o).
FromOptions(o) == parseOptions(AbstractBlock, o).this

\* The abbreviated serialization of the header of BaseOptions with nonce 1.
Wire == abbr(FromOptions([BaseOptions EXCEPT !.nonce = Num(1)])).bytes

\* The buffers handed to parseAbbr: the whole serialization, and the
\* serialization cut short of its last byte, in the middle of a hash, and to
\* nothing.
Buffers == {SubSeq(Wire, 1, n) : n \in {0, 100, Len(Wire) - 1, Len(Wire)}}

\* The json argument given to parseJSON: every field valid.
JsonInput == [BaseOptions EXCEPT !.nonce = Num(1), !.time = Num(6)]

\* Options whose signature is a Buffer the caller keeps.
BufferOptions == [BaseOptions EXCEPT !.blocksig = Buf(Signature.s)]

\* The values the caller writes into the first byte of its buffer.
CallerBytes == {0, 255}

NoArg == [all |-> Undef, enc |-> "", body |-> FALSE]

(* ------------------------------- actions ------------------------------- *)

\* The digest a hash() call returned, from either form of its result.
Digest(v) == IF v.t = "string" THEN Buf(fromHex(v.s)) ELSE v

\* The operations that call this.hash().
HashCallers == {"hash", "verify", "verifyPOW", "rhash", "toInv"}

\* The history variable after operation o on entity self with result r.
\* In mode "hash", first is the digest of the first hash() call that
\* returned one while the mutable flag was false, since that of the first
\* such call since the last refresh(), and fresh tells that refresh() was
\* called and hash() has not been called since, by the caller or by
\* verify(), verifyPOW(), rhash() or toInv(). In mode "verify", verified tells
\* that verify() has returned true, and stable counts (up to two) the
\* verify() calls that returned true since parseOptions, parseAbbr or
\* refresh was last called.
Track(p, o, self, r) ==
  IF p.on = "hash" THEN
    [p EXCEPT
       !.first = IF o = "hash" /\ ~r.threw /\ ~Truthy(self.mutable) /\ @ = Null
                   THEN Digest(r.val) ELSE @,
       !.since = IF o = "refresh" THEN Null
                 ELSE IF o = "hash" /\ ~r.threw /\ ~Truthy(self.mutable) /\ @ = Null
                   THEN Digest(r.val) ELSE @,
       !.fresh = IF o = "refresh" THEN TRUE
                 ELSE IF o \in HashCallers THEN FALSE ELSE @]
  ELSE IF p.on = "verify" THEN
    [p EXCEPT
       !.verified = @ \/ (o = "verify" /\ r = Returned(Bool(TRUE))),
       !.stable = IF o \in {"parseOptions", "parseAbbr", "refresh"} THEN 0
                  ELSE IF o = "verify" /\ r = Returned(Bool(TRUE)) /\ @ < 2
                    THEN @ + 1 ELSE @]
  ELSE p

\* The history variable in mode m before any call.
NoPin(m) ==
  [on |-> m, first |-> Null, since |-> Null, fresh |-> FALSE,
   verified |-> FALSE, stable |-> 0]

Init ==
  /\ variant \in {"abstract", "block"}
  /\ this = IF variant = "abstract" THEN AbstractBlock
            ELSE [AbstractBlock EXCEPT !.txs = Arr(<<>>)]
  /\ op = "new"
  /\ arg = NoArg
  /\ ret = Returned(This)
  /\ trace = NoTrace
  /\ pin = NoPin("off")
  /\ shared = FALSE

ParseOptions ==
  \E o \in Options :
    \E r \in {parseOptions(this, o)} :
       /\ this' = r.this
       /\ op' = "parseOptions"
       /\ arg' = NoArg
       /\ ret' = r.ret
       /\ trace' = NoTrace
       /\ shared' = (IF r.ret.threw THEN shared ELSE sharesBuffer(o))
       /\ pin' = Track(pin, "parseOptions", this, r.ret)
       /\ UNCHANGED variant

ParseAbbr ==
  \E d \in Buffers :
    \E r \in {parseAbbr(this, d)} :
       /\ this' = r.this
       /\ op' = "parseAbbr"
       /\ arg' = NoArg
       /\ ret' = r.ret
       /\ trace' = NoTrace
       /\ shared' = (IF r.ret.threw THEN shared ELSE FALSE)
       /\ pin' = Track(pin, "parseAbbr", this, r.ret)
       /\ UNCHANGED variant

Refresh ==
  \E a \in {Bool(TRUE), Bool(FALSE), Undef} :
    \E r \in {refresh(this, a)} :
       /\ this' = r.this
       /\ op' = "refresh"
       /\ arg' = [NoArg EXCEPT !.all = a]
       /\ ret' = Returned(Undef)
       /\ trace' = [NoTrace EXCEPT !.txRefresh = r.calls]
       /\ pin' = Track(pin, "refresh", this, Returned(Undef))
       /\ UNCHANGED <<variant, shared>>

Hash ==
  \E enc \in {"", "hex"} :
    \E r \in {hash(this, enc)} :
       /\ this' = r.this
       /\ op' = "hash"
       /\ arg' = [NoArg EXCEPT !.enc = enc]
       /\ ret' = r.ret
       /\ trace' = NoTrace
       /\ pin' = Track(pin, "hash", this, r.ret)
       /\ UNCHANGED <<variant, shared>>

Abbr ==
  \E r \in {abbr(this)} :
     /\ op' = "abbr"
     /\ arg' = NoArg
     /\ ret' = IF r.ok THEN Returned(Buf(r.bytes)) ELSE Thrown("EncodeError")
     /\ trace' = NoTrace
     /\ UNCHANGED <<this, variant, pin, shared>>

Verify ==
  \E body \in BOOLEAN :
    \E r \in {verify(this, variant, body)} :
       /\ this' = r.this
       /\ op' = "verify"
       /\ arg' = [NoArg EXCEPT !.body = body]
       /\ ret' = r.ret
       /\ trace' = r.trace
       /\ pin' = Track(pin, "verify", this, r.ret)
       /\ UNCHANGED <<variant, shared>>

VerifyPOW ==
  \E r \in {verifyPOW(this)} :
     /\ this' = r.this
     /\ op' = "verifyPOW"
     /\ arg' = NoArg
     /\ ret' = r.ret
     /\ trace' = NoTrace
     /\ pin' = Track(pin, "verifyPOW", this, r.ret)
     /\ UNCHANGED <<variant, shared>>

Rhash ==
  \E r \in {rhash(this)} :
     /\ this' = r.this
     /\ op' = "rhash"
     /\ arg' = NoArg
     /\ ret' = r.ret
     /\ trace' = NoTrace
     /\ pin' = Track(pin, "rhash", this, r.ret)
     /\ UNCHANGED <<variant, shared>>

ToInv ==
  \E r \in {toInv(this)} :
     /\ this' = r.this
     /\ op' = "toInv"
     /\ arg' = NoArg
     /\ ret' = r.ret
     /\ trace' = NoTrace
     /\ pin' = Track(pin, "toInv", this, r.ret)
     /\ UNCHANGED <<variant, shared>>

\* A variant that holds transactions appends one; a transaction is its index.
AddTx ==
  /\ variant = "block"
  /\ Len(this.txs.s) < MaxTxs
  /\ this' = [this EXCEPT !.txs = Arr(Append(this.txs.s, Len(this.txs.s) + 1))]
  /\ op' = "addTX"
  /\ arg' = NoArg
  /\ ret' = Returned(Undef)
  /\ trace' = NoTrace
  /\ UNCHANGED <<variant, pin, shared>>

\* A variant that holds transactions measures itself and, when immutable,
\* memoizes the sizes in _size and _witness.
GetSizes ==
  /\ variant = "block"
  /\ this._size = Num(-1)
  /\ ~Truthy(this.mutable)
  /\ this' = [this EXCEPT !._size = Num(1), !._witness = Num(0)]
  /\ op' = "getSizes"
  /\ arg' = NoArg
  /\ ret' = Returned(Undef)
  /\ trace' = NoTrace
  /\ UNCHANGED <<variant, pin, shared>>

Next ==
  \/ ParseOptions
  \/ ParseAbbr
  \/ Refresh
  \/ Hash
  \/ Abbr
  \/ Verify
  \/ VerifyPOW
  \/ Rhash
  \/ ToInv
  \/ AddTx
  \/ GetSizes

Spec == Init /\ [][Next]_vars

\* The abstract base alone, with the history of the digests hash() returned.
InitPin ==
  /\ variant = "abstract"
  /\ this = AbstractBlock
  /\ op = "new"
  /\ arg = NoArg
  /\ ret = Returned(This)
  /\ trace = NoTrace
  /\ pin = NoPin("hash")
  /\ shared = FALSE

NextPin ==
  \/ ParseOptions
  \/ ParseAbbr
  \/ Refresh
  \/ Hash
  \/ Abbr
  \/ Verify
  \/ VerifyPOW
  \/ Rhash
  \/ ToInv

SpecPin == InitPin /\ [][NextPin]_vars

\* parseOptions with a Buffer signature.
ParseOptionsBuffer ==
  \E r \in {parseOptions(this, BufferOptions)} :
     /\ this' = r.this
     /\ op' = "parseOptions"
     /\ arg' = NoArg
     /\ ret' = r.ret
     /\ trace' = NoTrace
     /\ shared' = (IF r.ret.threw THEN shared ELSE sharesBuffer(BufferOptions))
     /\ pin' = Track(pin, "parseOptions", this, r.ret)
     /\ UNCHANGED variant

\* The caller overwrites the first byte of the buffer it passed; the entity
\* sees the write when its blocksig is that same object.
CallerWrites ==
  /\ shared
  /\ \E b \in CallerBytes :
       this' = [this EXCEPT !.blocksig = Buf([@.s EXCEPT ![1] = b])]
  /\ op' = "callerWrite"
  /\ arg' = NoArg
  /\ ret' = Returned(Undef)
  /\ trace' = NoTrace
  /\ UNCHANGED <<variant, pin, shared>>

\* The abstract base with a caller that passes and keeps a Buffer signature.
NextShared ==
  \/ ParseOptions
  \/ ParseOptionsBuffer
  \/ CallerWrites
  \/ ParseAbbr
  \/ Refresh
  \/ Hash
  \/ Abbr
  \/ Verify
  \/ VerifyPOW
  \/ Rhash
  \/ ToInv

InitShared ==
  /\ variant = "abstract"
  /\ this = AbstractBlock
  /\ op = "new"
  /\ arg = NoArg
  /\ ret = Returned(This)
  /\ trace = NoTrace
  /\ pin = NoPin("off")
  /\ shared = FALSE

SpecShared == InitShared /\ [][NextShared]_vars

\* verify() on a variant whose body check passes.
VerifyPassing ==
  \E r \in {verify(this, variant, TRUE)} :
     /\ this' = r.this
     /\ op' = "verify"
     /\ arg' = [NoArg EXCEPT !.body = TRUE]
     /\ ret' = r.ret
     /\ trace' = r.trace
     /\ pin' = Track(pin, "verify", this, r.ret)
     /\ UNCHANGED <<variant, shared>>

\* A variant whose body check passes, with the history of its verify() calls.
InitVerified ==
  /\ variant = "block"
  /\ this = [AbstractBlock EXCEPT !.txs = Arr(<<>>)]
  /\ op = "new"
  /\ arg = NoArg
  /\ ret = Returned(This)
  /\ trace = NoTrace
  /\ pin = NoPin("verify")
  /\ shared = FALSE

NextVerified ==
  \/ ParseOptions
  \/ ParseAbbr
  \/ Refresh
  \/ Hash
  \/ VerifyPassing
  \/ VerifyPOW

SpecVerified == InitVerified /\ [][NextVerified]_vars

\* parseJSON(json) in a scope that may or may not bind the name options.
ParseJSON ==
  \E declared \in BOOLEAN, outer \in Options :
    \E r \in {parseJSON(this, JsonInput, declared, outer)} :
       /\ this' = r.this
       /\ op' = "parseJSON"
       /\ arg' = NoArg
       /\ ret' = r.ret
       /\ trace' = NoTrace
       /\ shared' = (IF r.ret.threw THEN shared ELSE sharesBuffer(outer))
       /\ pin' = Track(pin, "parseOptions", this, r.ret)
       /\ UNCHANGED variant

\* The abstract base built from options or from JSON.
InitJSON ==
  /\ variant = "abstract"
  /\ this = AbstractBlock
  /\ op = "new"
  /\ arg = NoArg
  /\ ret = Returned(This)
  /\ trace = NoTrace
  /\ pin = NoPin("off")
  /\ shared = FALSE

NextJSON ==
  \/ ParseJSON
  \/ ParseOptions
  \/ Refresh
  \/ Hash
  \/ Abbr

SpecJSON == InitJSON /\ [][NextJSON]_vars

(* ------------------------------- claims -------------------------------- *)

\* C1 as stated: on an entity whose mutable flag is false, every hash() call
\* returns the digest that the first hash() call returned.
C1_HashNeverChanges ==
  (op = "hash" /\ ~ret.threw /\ ~Truthy(this.mutable) /\ pin.first # Null)
    => Digest(ret.val) = pin.first

\* C1 as amended: every hash() call returns the digest that the first hash()
\* call since the last refresh() returned on the then immutable entity,
\* whatever other operations came between the two calls.
C1_HashStableUntilRefresh ==
  (op = "hash" /\ ~ret.threw /\ pin.since # Null) => Digest(ret.val) = pin.since

\* A later hash() call returns the digest pinned before the header fields
\* were replaced.
C1_Witness ==
  /\ op = "hash"
  /\ ~ret.threw
  /\ pin.since # Null
  /\ Digest(ret.val) = pin.since
  /\ ~Truthy(this.mutable)
  /\ this._hash # Buf(hash256(abbr(this).bytes))

\* C2 as stated: while the mutable flag is true, every hash() call returns
\* hash256 of the abbreviated serialization of the current field values, also
\* when the flag became true after a digest had been cached.
C2_MutableHashRecomputes ==
  (op = "hash" /\ ~ret.threw /\ Truthy(this.mutable))
    => Digest(ret.val) = Buf(hash256(abbr(this).bytes))

\* C3: verify() calls verifyPOW() once; when that returns false, verify()
\* returns false and verifyBody() is not called; when it returns true,
\* verifyBody() is called exactly once and verify() gives its result, so
\* verify() is true iff both phases are.
C3_VerifyOrder ==
  op = "verify" =>
    /\ Len(trace.verifyPOW) = 1
    /\ trace.verifyPOW[1] = Returned(Bool(FALSE))
         => (ret = Returned(Bool(FALSE)) /\ trace.verifyBody = <<>>)
    /\ trace.verifyPOW[1] = Returned(Bool(TRUE))
         => (Len(trace.verifyBody) = 1 /\ ret = trace.verifyBody[1])
    /\ ret = Returned(Bool(TRUE))
         <=> /\ trace.verifyPOW = <<Returned(Bool(TRUE))>>
             /\ trace.verifyBody = <<Returned(Bool(TRUE))>>

\* The proof of work passed and the one verifyBody() call failed.
C3_Witness ==
  /\ op = "verify"
  /\ variant = "block"
  /\ ret = Returned(Bool(FALSE))
  /\ trace.verifyPOW = <<Returned(Bool(TRUE))>>
  /\ trace.verifyBody = <<Returned(Bool(FALSE))>>

\* C4 as stated: a verify() call that returns false leaves the whole entity,
\* caches included, as it was before the call.
C4_FalseVerifyChangesNothing ==
  [][(op' = "verify" /\ ret' = Returned(Bool(FALSE))) => this' = this]_vars

\* C4 as amended: a verify() call that returns false leaves the entity as it
\* was, except that on an immutable entity with no cached digest it fills
\* _hash with the digest of the current field values.
C4_FalseVerifyOnlyMemoizes ==
  [][(op' = "verify" /\ ret' = Returned(Bool(FALSE)))
       => \/ this' = this
          \/ /\ ~Truthy(this._hash)
             /\ ~Truthy(this.mutable)
             /\ this' = [this EXCEPT !._hash = Buf(hash256(abbr(this).bytes))]]_vars

\* verify() returned false and the entity holds the digest of its fields.
C4_Witness ==
  /\ op = "verify"
  /\ ret = Returned(Bool(FALSE))
  /\ ~Truthy(this._hhash)
  /\ this._hash = Buf(hash256(abbr(this).bytes))

\* The decoded signature length is the length of the decoded signature.
SigSizeMatches(self) ==
  self.blocksigsize =
    Num(IF self.blocksig.t \in {"string", "buffer"} THEN Len(self.blocksig.s) ELSE 0)

\* C5 as stated: the header parseOptions accepted serializes, and parseAbbr of
\* those bytes on a fresh entity succeeds with every header field equal to
\* the original's and blocksigsize the length of blocksig.
C5_RoundTrip ==
  (op = "parseOptions" /\ ~ret.threw) =>
    Let(abbr(this), LAMBDA raw :
      /\ raw.ok
      /\ Let(parseAbbr(AbstractBlock, raw.bytes), LAMBDA r :
           /\ ~r.ret.threw
           /\ \A f \in HeaderFields : r.this[f] = this[f]
           /\ SigSizeMatches(r.this)))

\* C6 as stated: in every reachable state blocksigsize is the length of
\* blocksig (a fresh entity's absent signature counting as empty).
C6_SigSizeIsLength == SigSizeMatches(this)

\* C7 as stated: a parseAbbr that fails leaves every header field of the
\* target entity as it was, none taken from the truncated buffer.
C7_FailedParseKeepsFields ==
  [][(op' = "parseAbbr" /\ ret'.threw)
       => \A f \in HeaderFields : this'[f] = this[f]]_vars

\* Every required header field is present with the type and shape C8 names.
WellFormed(self) ==
  /\ \A f \in {"version", "time", "bits", "nonce", "outpointn", "blocksigsize"} :
       isNumber(self[f])
  /\ \A f \in {"prevHash", "merkleRoot", "hashMerkleRootWithData",
                "hashMerkleRootWithPrevData", "outpointhash"} :
       IsHashString(self[f])
  /\ self.blocksig.t \in {"string", "buffer"}

\* C8 as stated: parseOptions succeeds only when every required field is
\* present with its type and shape, so the entity it built is well formed.
C8_AcceptedIsWellFormed ==
  (op = "parseOptions" /\ ~ret.threw) => WellFormed(this)

\* C9: on the abstract base verifyBody() only ever throws; verify() throws
\* that error exactly when verifyPOW() passed, never returns true, and
\* returns false only when verifyPOW() failed.
C9_AbstractVerify ==
  (op = "verify" /\ variant = "abstract") =>
    /\ \A i \in 1..Len(trace.verifyBody) :
         trace.verifyBody[i] = Thrown("Abstract method.")
    /\ ret = Thrown("Abstract method.")
         <=> trace.verifyPOW = <<Returned(Bool(TRUE))>>
    /\ ret = Returned(Bool(FALSE))
         => trace.verifyPOW = <<Returned(Bool(FALSE))>>
    /\ ret # Returned(Bool(TRUE))

\* verify() on the abstract base raised the abstract-method error.
C9_Witness ==
  /\ op = "verify"
  /\ variant = "abstract"
  /\ trace.verifyPOW = <<Returned(Bool(TRUE))>>
  /\ ret = Thrown("Abstract method.")

\* C10: refresh(all) returns normally with _hash and _hhash null and _size
\* and _witness -1; it calls refresh() once on every transaction when all is
\* true and txs is present, and on none otherwise.
C10_Refresh ==
  op = "refresh" =>
    /\ ~ret.threw
    /\ this._hash = Null
    /\ this._hhash = Null
    /\ this._size = Num(-1)
    /\ this._witness = Num(-1)
    /\ trace.txRefresh =
         IF Truthy(arg.all) /\ Truthy(this.txs)
           THEN [i \in 1..Len(this.txs.s) |-> 1]
           ELSE <<>>

\* A deep refresh visited each of the two transactions once.
C10_Witness ==
  /\ op = "refresh"
  /\ Truthy(arg.all)
  /\ Len(this.txs.s) = MaxTxs
  /\ trace.txRefresh = [i \in 1..MaxTxs |-> 1]

\* C11: the first hash() call after a refresh() returns hash256 of the
\* abbreviated serialization of the field values the entity has at that call,
\* whatever the mutable flag is and whatever was cached before the refresh.
C11_HashAfterRefreshRecomputes ==
  [][(pin.fresh /\ op' = "hash" /\ ~ret'.threw)
       => Digest(ret'.val) = Buf(hash256(abbr(this).bytes))]_vars

\* An immutable entity's hash() returned the digest of its current fields,
\* which is not the digest its first hash() call returned.
C11_Witness ==
  /\ op = "hash"
  /\ ~ret.threw
  /\ ~Truthy(this.mutable)
  /\ pin.first # Null
  /\ Digest(ret.val) # pin.first
  /\ Digest(ret.val) = Buf(hash256(abbr(this).bytes))

\* The hex slot is filled only beside the binary slot, with its hex
\* encoding, and hash('hex') gives the hex encoding of what hash() gives.
HexMatchesBinary ==
  /\ this._hhash # Null
       => (this._hash # Null /\ this._hhash = Str(toHex(this._hash.s)))
  /\ Let(hash(this, "").ret, LAMBDA b :
       Let(hash(this, "hex").ret, LAMBDA x :
         /\ x.threw = b.threw
         /\ ~b.threw => x.val = Str(toHex(b.val.s))))

\* A filled slot keeps its value until refresh() empties it.
SlotsWrittenOnce ==
  /\ this._hash # Null
       => (this'._hash = this._hash \/ (op' = "refresh" /\ this'._hash = Null))
  /\ this._hhash # Null
       => (this'._hhash = this._hhash \/ (op' = "refresh" /\ this'._hhash = Null))

\* C12: in every reachable state hash('hex') returns the hex encoding of the
\* digest hash() returns, a non-null _hhash stands beside a non-null _hash
\* and is its hex encoding, and each slot, once written, is not written
\* again before a refresh().
C12_HexConsistent == []HexMatchesBinary /\ [][SlotsWrittenOnce]_vars

\* The binary form was asked for after the hex form had been memoized.
C12_Witness ==
  /\ op = "hash"
  /\ arg.enc = ""
  /\ this._hhash # Null
  /\ ret = Returned(this._hash)

\* The digest of the entity's current fields, as an unsigned integer, is at
\* most the target its bits decode to, a target that is neither negative nor
\* overflowing nor zero.
PowHolds(self) ==
  Let(fromCompact(self.bits), LAMBDA t :
    /\ ~t.neg
    /\ ~t.overflow
    /\ ~IsZero(t.mag)
    /\ LessEq(hash256(abbr(self).bytes), t.mag))

\* C13 as stated: verifyPOW() returns true iff the digest of the current
\* header fields is at most the target decoded from the current bits, and
\* false for a zero, negative or overflowing target, after any sequence of
\* field changes, refreshes and earlier hash() calls.
C13_PowOfCurrentFields ==
  (op = "verifyPOW" /\ ~ret.threw) => ret.val = Bool(PowHolds(this))

\* The twelve fields of C14 in its order and types: little-endian 32-bit
\* integers, 32-byte hashes, a one-byte length prefix (lengths below 253)
\* and the raw signature bytes.
Layout(self) ==
  LE(self.version.n, 4)
    \o fromHex(self.prevHash.s)
    \o fromHex(self.merkleRoot.s)
    \o fromHex(self.hashMerkleRootWithData.s)
    \o fromHex(self.hashMerkleRootWithPrevData.s)
    \o LE(self.time.n, 4)
    \o LE(self.bits.n, 4)
    \o LE(self.nonce.n, 4)
    \o fromHex(self.outpointhash.s)
    \o LE(self.outpointn.n, 4)
    \o <<self.blocksigsize.n>>
    \o self.blocksig.s

\* C14: the bytes abbr()/writeAbbr emits are the twelve fields in the stated
\* order and types, and the entity a successful parseAbbr leaves has exactly
\* the fields that lie in that layout in the buffer it was given.
C14_FieldOrder ==
  /\ (op = "abbr" /\ ~ret.threw) => ret.val.s = Layout(this)
  /\ (op = "parseAbbr" /\ ~ret.threw) => \E d \in Buffers : d = Layout(this)

\* A complete buffer was decoded, its outpointn as a signed integer.
C14_Witness ==
  /\ op = "parseAbbr"
  /\ ~ret.threw
  /\ this.nonce = Num(1)
  /\ this.outpointn = Num(-1)
  /\ this.blocksig.s = Signature.s

\* C15 as stated: after parseOptions(options) has returned, a write by the
\* caller into the buffer it passed as options.blocksig leaves the entity's
\* blocksig as it was.
C15_SignatureCopied ==
  [][op' = "callerWrite" => this'.blocksig = this.blocksig]_vars

\* C16 as stated: once verify() has returned true, every later verify() call
\* returns true, whatever operations come between.
C16_VerifiedIsTerminal ==
  [][(pin.verified /\ op' = "verify") => ret' = Returned(Bool(TRUE))]_vars

\* C16 as amended: once verify() has returned true, a later verify() call
\* returns true when neither parseOptions nor parseAbbr nor refresh has been
\* called in between (and the variant's body check still passes).
C16_VerifiedWhileUntouched ==
  [][(pin.stable > 0 /\ op' = "verify") => ret' = Returned(Bool(TRUE))]_vars

\* verify() returned true a second time, with the hex digest asked for
\* in between.
C16_Witness ==
  /\ op = "verify"
  /\ ret = Returned(Bool(TRUE))
  /\ pin.stable = 2
  /\ this._hhash # Null

\* C17 as stated, for the call that follows a completed parseOptions or
\* parseAbbr: it leaves the mutable flag as it is.
C17_MutableFixed ==
  [][(op \in {"parseOptions", "parseAbbr"} /\ ~ret.threw)
       => this'.mutable = this.mutable]_vars

\* parseOptions sets the flag to the truth value of options.mutable when
\* that is given, and leaves it otherwise and when it throws.
MutableFromOptions ==
  \A o \in Options :
    Let(parseOptions(this, o), LAMBDA r :
      r.this.mutable =
        IF r.ret.threw \/ o.mutable \in {Undef, Null} THEN this.mutable
        ELSE Bool(Truthy(o.mutable)))

\* C17 as amended: no operation other than parseOptions changes the mutable
\* flag, and a parseOptions call changes it only to the truth value of an
\* options.mutable that is given.
C17_MutableSetByParseOptionsOnly ==
  /\ []MutableFromOptions
  /\ [][op' # "parseOptions" => this'.mutable = this.mutable]_vars

\* A mutable entity was decoded again and is still mutable.
C17_Witness ==
  /\ op = "parseAbbr"
  /\ ~ret.threw
  /\ Truthy(this.mutable)

\* C18 as stated: in every reachable state a non-null _hash is hash256 of the
\* abbreviated serialization of the entity's current header fields.
C18_CacheCoherent ==
  this._hash # Null => this._hash = Buf(hash256(abbr(this).bytes))

\* C19 as stated: parseJSON(json) with a json whose fields are all valid
\* returns the entity with every header field set to the value json gives
\* it, whatever lies outside the function.
C19_ParseJSONUsesArgument ==
  op = "parseJSON"
    => (ret = Returned(This) /\ \A f \in HeaderFields : this[f] = JsonInput[f])

\* C20: a parseOptions call that throws leaves the whole entity, header
\* fields, mutable flag and cache slots, as it was before the call.
C20_FailedParseOptionsAtomic ==
  [][(op' = "parseOptions" /\ ret'.threw) => this' = this]_vars

\* parseOptions threw on an entity that holds a header and a cached digest.
C20_Witness ==
  /\ op = "parseOptions"
  /\ ret.threw
  /\ this.nonce = Num(1)
  /\ this._hash # Null
  /\ Truthy(this.mutable)

====
